---- MODULE Spec2Model ----
(***************************************************************************)
(* bevy_atelier: the AssetServer facade (src/src/asset_server.rs), the     *)
(* AssetStorageResolver that dispatches the loader's storage operations    *)
(* to the registered typed storages, and the collaborators it drives: the  *)
(* loader's per-identifier load state machine, the handles with their      *)
(* RefOp channel, and the typed storages.  The facade and the resolver are *)
(* translated from the source; the collaborators, whose code is not part   *)
(* of the source files, follow the specification's sections 3 and 4.       *)
(***************************************************************************)
EXTENDS Integers, Sequences, FiniteSets, TLC

\* ---------------------------------------------------------------- bounds
\* RefOps the unbounded channel may hold (the channel is never read, so this
\* also bounds the handle constructions and destructions of a behaviour).
MaxOps == 2
\* Load attempts per identifier (the version counter's cap).
MaxVersion == 2
\* Storage operations dispatched in a behaviour of ResolverSpec.
MaxCalls == 3

\* ---------------------------------------------------------------- domains
Paths == {"a.png", "b.dat"}
Types == {"Image", "Blob"}
\* The AssetTypeId the backend's metadata gives the asset behind a path.
TypeOfPath(p) == IF p = "a.png" THEN "Image" ELSE "Blob"
Ids == 1..Cardinality(Paths)
NoId == 0
HandleKinds == {"Handle", "GenericHandle"}
LoadStates == {"Unloaded", "Requested", "BytesPending", "Decoding", "Committed", "Freed"}
InFlight == {"Requested", "BytesPending", "Decoding"}
StorageOps == {"update_asset", "commit_asset_version", "free"}

VARIABLES
    registrations,  \* AssetTypeRegistry.registrations: the registered AssetTypeIds
    ref_op_rx,      \* the RefOps sent on ref_op_tx and not yet received
    handles,        \* live handles: kind -> identifier -> how many
    loader,         \* the Loader's bookkeeping
    storage,        \* the typed storages: type -> identifier -> staged/visible version
    visits,         \* type -> times its get_assets_storage_fn visitor was invoked
    calls,          \* type -> identifier -> operation -> times dispatched by the resolver
    update_result,  \* identifier -> what the last update_asset dispatch returned
    status,         \* "running", or "panicked" once process_system has panicked
    pumped,         \* process_system has run since the last handle construction/drop
    dropped,        \* identifiers a handle of which was dropped after their commit
    loaded,         \* path -> the identifiers the handles load returned for it refer to
    loads,          \* calls of load and load_untyped so far
    config,         \* what AssetServer::new is given: settings, daemon feature, the packfile
    last_unimplemented, \* the last call of load_folder / get_handle_path and how it ended
    seen,           \* what use_the_thing's last poll of the Image storage returned
    committed,      \* identifier -> the versions commit_asset_version was called with for Image
    last_dispatch   \* the last recorded call for Image: operation and arguments

vars == <<registrations, ref_op_rx, handles, loader, storage, visits, calls,
          update_result, status, pumped, dropped, loaded, loads,
          config, last_unimplemented, seen, committed, last_dispatch>>

\* What the facade's handle and pump operations leave alone.
polled == <<seen, committed, last_dispatch>>
startup == <<config, last_unimplemented>>

NoResult == [type |-> "none", result |-> <<"None">>]
Ok == <<"Ok">>
Err(kind, t) == <<"Err", kind, t>>

\* ------------------------------------------------- typed storage (Assets<T>)
\* One typed storage: identifier -> the staged and the externally visible version
\* (0: none).  A version stands for the value decoded from that load's bytes.
EmptyStore == [id \in Ids |-> [staged |-> 0, visible |-> 0]]

\* update_asset: decode and keep as staged, not yet visible; Err when decoding fails.
StorageUpdateAsset(st, id, version, decode_ok) ==
    IF decode_ok
    THEN [st |-> [st EXCEPT ![id].staged = version], result |-> Ok]
    ELSE [st |-> st, result |-> <<"Err", "AssetLoadError">>]

\* commit_asset_version: the staged version becomes the visible one, as one unit.
StorageCommitAssetVersion(st, id, version) ==
    IF st[id].staged = version /\ version # 0
    THEN [st EXCEPT ![id] = [staged |-> 0, visible |-> version]]
    ELSE st

\* free: releases the identifier's storage.
StorageFree(st, id, version) ==
    [st EXCEPT ![id] = [staged |-> 0, visible |-> 0]]

\* Assets<T>::get(&handle): the visible version, 0 for None.
AssetsGet(t, id) == storage[t][id].visible

\* ------------------------------------------------- AssetStorageResolver
\* The resources the resolver reaches: w = [storage, visits, calls].
Dispatched(w, t, id, op) == [w EXCEPT !.calls[t][id][op] = @ + 1]

\* update_asset with the registration lookup left out: the storage is reached for
\* any type.
ResolverUpdateAssetNoLookup(w, t, id, version, decode_ok) ==
    LET w1 == Dispatched(w, t, id, "update_asset")
        r == StorageUpdateAsset(w1.storage[t], id, version, decode_ok)
    IN  [w |-> [w1 EXCEPT !.storage[t] = r.st, !.visits[t] = @ + 1], result |-> r.result]

\* update_asset returning Ok(()) whatever the storage returned.
ResolverUpdateAssetSwallow(w, t, id, version, decode_ok) ==
    LET w1 == Dispatched(w, t, id, "update_asset")
    IN  IF t \in registrations
        THEN LET r == StorageUpdateAsset(w1.storage[t], id, version, decode_ok)
             IN  [w |-> [w1 EXCEPT !.storage[t] = r.st, !.visits[t] = @ + 1], result |-> Ok]
        ELSE [w |-> w1, result |-> Err("MissingAssetRegistration", t)]

\* update_asset whose visitor callback also commits the version it staged.
ResolverUpdateAssetCommits(w, t, id, version, decode_ok) ==
    LET w1 == Dispatched(w, t, id, "update_asset")
    IN  IF t \in registrations
        THEN LET r == StorageUpdateAsset(w1.storage[t], id, version, decode_ok)
             IN  [w |-> [w1 EXCEPT !.storage[t] = StorageCommitAssetVersion(r.st, id, version),
                                   !.visits[t] = @ + 1],
                  result |-> r.result]
        ELSE [w |-> w1, result |-> Err("MissingAssetRegistration", t)]

\* update_asset: with a registration, the visitor is invoked and the storage's
\* result returned (result.unwrap()); without, Err(MissingAssetRegistration(type)).
ResolverUpdateAsset(w, t, id, version, decode_ok) ==
    LET w1 == Dispatched(w, t, id, "update_asset")
    IN  IF t \in registrations
        THEN LET r == StorageUpdateAsset(w1.storage[t], id, version, decode_ok)
             IN  [w |-> [w1 EXCEPT !.storage[t] = r.st, !.visits[t] = @ + 1],
                  result |-> r.result]
        ELSE [w |-> w1, result |-> Err("MissingAssetRegistration", t)]

\* commit_asset_version passing the storage the version before the one it was given.
ResolverCommitAssetVersionStale(w, t, id, version) ==
    LET w1 == Dispatched(w, t, id, "commit_asset_version")
    IN  IF t \in registrations
        THEN [w1 EXCEPT !.storage[t] = StorageCommitAssetVersion(@, id, version - 1),
                        !.visits[t] = @ + 1]
        ELSE w1

\* commit_asset_version: with a registration, the visitor commits on the storage;
\* without, only the error is logged.
ResolverCommitAssetVersion(w, t, id, version) ==
    LET w1 == Dispatched(w, t, id, "commit_asset_version")
    IN  IF t \in registrations
        THEN [w1 EXCEPT !.storage[t] = StorageCommitAssetVersion(@, id, version),
                        !.visits[t] = @ + 1]
        ELSE w1

\* free: with a registration, the visitor frees on the storage; without, only the
\* error is logged.
ResolverFree(w, t, id, version) ==
    LET w1 == Dispatched(w, t, id, "free")
    IN  IF t \in registrations
        THEN [w1 EXCEPT !.storage[t] = StorageFree(@, id, version),
                        !.visits[t] = @ + 1]
        ELSE w1

World == [storage |-> storage, visits |-> visits, calls |-> calls]

\* ------------------------------------------------- Loader (atelier_loader)
\* The path an allocated identifier was resolved from.
PathOf(L, id) == CHOOSE p \in Paths : L.indirect[p] = id
TypeOf(L, id) == TypeOfPath(PathOf(L, id))
Allocated(L) == {L.indirect[p] : p \in Paths} \ {NoId}

\* add_ref_indirect: the identifier the indirect identifier resolves to (allocated
\* on first use, cached afterwards), one more reference for it (as the name of
\* the call says), and a load requested under the next version unless one is in
\* flight or committed.  Nothing else in the facade changes refs: the RefOps sent
\* by the handles are never received (process_system does not read ref_op_rx).
AddRefIndirectId(L, p) == IF L.indirect[p] # NoId THEN L.indirect[p] ELSE L.next_id

AddRefIndirect(L, p) ==
    LET id == AddRefIndirectId(L, p)
        L1 == IF L.indirect[p] # NoId THEN L
              ELSE [L EXCEPT !.indirect[p] = id, !.next_id = @ + 1]
        L2 == [L1 EXCEPT !.refs[id] = @ + 1]
    IN  IF L2.load_state[id] = "Unloaded"
        THEN [L2 EXCEPT !.load_state[id] = "Requested", !.version[id] = @ + 1]
        ELSE L2

\* One step of one identifier's load in Loader::process.  s = [loader, w, res];
\* ready: the backend has this load's next result; decode_ok: its bytes decode.
StepLoad(s, id, ready, decode_ok) ==
    LET L == s.loader
        st == L.load_state[id]
    IN  IF ~ready \/ st \notin InFlight THEN s
        ELSE IF st = "Requested"
        THEN [s EXCEPT !.loader.load_state[id] = "BytesPending"]
        ELSE IF st = "BytesPending"
        THEN [s EXCEPT !.loader.load_state[id] = "Decoding"]
        ELSE IF id \notin L.updated
        THEN LET r == ResolverUpdateAsset(s.w, TypeOf(L, id), id, L.version[id], decode_ok)
             IN  IF r.result = Ok
                 THEN [loader |-> [L EXCEPT !.updated = @ \cup {id}],
                       w |-> r.w,
                       res |-> [s.res EXCEPT ![id] = [type |-> TypeOf(L, id), result |-> r.result]]]
                 ELSE [loader |-> [L EXCEPT !.load_state[id] = "Unloaded"],
                       w |-> r.w,
                       res |-> [s.res EXCEPT ![id] = [type |-> TypeOf(L, id), result |-> r.result]]]
        ELSE [loader |-> [L EXCEPT !.load_state[id] = "Committed", !.updated = @ \ {id}],
              w |-> ResolverCommitAssetVersion(s.w, TypeOf(L, id), id, L.version[id]),
              res |-> s.res]

\* Loader::process: every pending load advances by one step, in identifier order.
RECURSIVE LoaderProcess(_, _, _, _)
LoaderProcess(s, id, ready, decode_ok) ==
    IF id \notin Ids THEN s
    ELSE LoaderProcess(StepLoad(s, id, id \in ready, id \in decode_ok), id + 1, ready, decode_ok)

\* ------------------------------------------------- handles and the RefOp channel
\* Handle::new / GenericHandle::new / clone: one more live handle, an Increase sent.
HandleNew(kind, id) ==
    /\ handles' = [handles EXCEPT ![kind][id] = @ + 1]
    /\ ref_op_rx' = Append(ref_op_rx, <<"Increase", id>>)
    /\ pumped' = FALSE

\* Drop for a handle: one live handle fewer, a Decrease sent.
HandleDrop(kind, id) ==
    /\ handles' = [handles EXCEPT ![kind][id] = @ - 1]
    /\ ref_op_rx' = Append(ref_op_rx, <<"Decrease", id>>)
    /\ pumped' = FALSE

Live(id) == handles["Handle"][id] + handles["GenericHandle"][id]
ChannelOpen == status = "running" /\ Len(ref_op_rx) < MaxOps

\* ------------------------------------------------- AssetServer
\* The settings AssetServer::new may be given, the build's assets-daemon feature
\* and what is at the packfile's path ("valid" where the setting is Directory).
Configs ==
    [settings : {"Directory"}, daemon : BOOLEAN, packfile : {"valid"}]
    \cup [settings : {"Packfile"}, daemon : {FALSE}, packfile : {"missing", "invalid", "valid"}]

\* new that falls back to a loader when Directory is asked for without the daemon.
NewOutcomeFallback(cfg) ==
    IF cfg.settings = "Directory" THEN "running"
    ELSE IF cfg.packfile = "missing" THEN "new_failed"
    ELSE IF cfg.packfile = "invalid" THEN "new_panicked"
    ELSE "running"

\* AssetServer::new: Directory needs the assets-daemon feature, else bail!;
\* Packfile: File::open(path)? returns the error, PackfileReader::new(..).unwrap()
\* panics; otherwise Ok(AssetServer {..}).
NewOutcome(cfg) ==
    IF cfg.settings = "Directory"
    THEN (IF cfg.daemon THEN "running" ELSE "new_failed")
    ELSE IF cfg.packfile = "missing" THEN "new_failed"
    ELSE IF cfg.packfile = "invalid" THEN "new_panicked"
    ELSE "running"

\* What Ok(AssetServer {..}) holds for a new loader and an unbounded() channel,
\* with the application's registrations.
Fresh ==
    /\ registrations \in SUBSET Types
    /\ ref_op_rx = <<>>
    /\ handles = [k \in HandleKinds |-> [id \in Ids |-> 0]]
    /\ loader = [indirect |-> [p \in Paths |-> NoId],
                 next_id |-> 1,
                 load_state |-> [id \in Ids |-> "Unloaded"],
                 version |-> [id \in Ids |-> 0],
                 updated |-> {},
                 refs |-> [id \in Ids |-> 0]]
    /\ storage = [t \in Types |-> EmptyStore]
    /\ visits = [t \in Types |-> 0]
    /\ calls = [t \in Types |-> [id \in Ids |-> [op \in StorageOps |-> 0]]]
    /\ update_result = [id \in Ids |-> NoResult]
    /\ pumped = FALSE
    /\ dropped = {}
    /\ loaded = [p \in Paths |-> {}]
    /\ loads = 0
    /\ last_unimplemented = <<"none", "none">>
    /\ seen = [id |-> NoId, value |-> 0]
    /\ committed = [id \in Ids |-> {}]
    /\ last_dispatch = [op |-> "none", id |-> NoId, version |-> 0, decode_ok |-> FALSE]

\* After AssetServer::new(&AssetServerSettings::Packfile(..)) returned Ok.
Init ==
    /\ Fresh
    /\ config = [settings |-> "Packfile", daemon |-> FALSE, packfile |-> "valid"]
    /\ status = NewOutcome(config)

\* A load of p can still be given a version.
CanRequest(p) ==
    LET id == AddRefIndirectId(loader, p)
    IN  loader.load_state[id] = "Unloaded" => loader.version[id] < MaxVersion

\* get_handle that also requests a load of the identifier.
GetHandleLoads(id) ==
    /\ ChannelOpen
    /\ HandleNew("Handle", id)
    /\ loader' = IF loader.load_state[id] = "Unloaded" /\ id \in Allocated(loader)
                     /\ loader.version[id] < MaxVersion
                  THEN [loader EXCEPT !.load_state[id] = "Requested", !.version[id] = @ + 1]
                  ELSE loader
    /\ UNCHANGED <<registrations, storage, visits, calls, update_result, status, dropped, loaded, loads>>
    /\ UNCHANGED <<polled, startup>>

\* get_handle
GetHandle(id) ==
    /\ ChannelOpen
    /\ HandleNew("Handle", id)
    /\ UNCHANGED <<registrations, loader, storage, visits, calls, update_result, status, dropped, loaded, loads>>
    /\ UNCHANGED <<polled, startup>>

\* get_handle_untyped
GetHandleUntyped(id) ==
    /\ ChannelOpen
    /\ HandleNew("GenericHandle", id)
    /\ UNCHANGED <<registrations, loader, storage, visits, calls, update_result, status, dropped, loaded, loads>>
    /\ UNCHANGED <<polled, startup>>

\* load_untyped
LoadUntyped(p) ==
    /\ ChannelOpen
    /\ CanRequest(p)
    /\ loader' = AddRefIndirect(loader, p)
    /\ HandleNew("GenericHandle", AddRefIndirectId(loader, p))
    /\ loaded' = [loaded EXCEPT ![p] = @ \cup {AddRefIndirectId(loader, p)}]
    /\ loads' = loads + 1
    /\ UNCHANGED <<registrations, storage, visits, calls, update_result, status, dropped>>
    /\ UNCHANGED <<polled, startup>>

\* load handing out a handle to a newly allocated identifier instead of the one
\* add_ref_indirect returned.
LoadFresh(p) ==
    LET id == IF loader.next_id \in Ids THEN loader.next_id ELSE AddRefIndirectId(loader, p)
    IN  /\ ChannelOpen
        /\ CanRequest(p)
        /\ loader' = AddRefIndirect(loader, p)
        /\ HandleNew("Handle", id)
        /\ loaded' = [loaded EXCEPT ![p] = @ \cup {id}]
        /\ loads' = loads + 1
        /\ UNCHANGED <<registrations, storage, visits, calls, update_result, status, dropped>>
        /\ UNCHANGED <<polled, startup>>

\* load: load_untyped(IndirectIdentifier::Path(path)).into()
Load(p) ==
    /\ ChannelOpen
    /\ CanRequest(p)
    /\ loader' = AddRefIndirect(loader, p)
    /\ HandleNew("Handle", AddRefIndirectId(loader, p))
    /\ loaded' = [loaded EXCEPT ![p] = @ \cup {AddRefIndirectId(loader, p)}]
    /\ loads' = loads + 1
    /\ UNCHANGED <<registrations, storage, visits, calls, update_result, status, dropped>>
    /\ UNCHANGED <<polled, startup>>

\* A live handle is cloned.
CloneHandle(kind, id) ==
    /\ ChannelOpen
    /\ handles[kind][id] > 0
    /\ HandleNew(kind, id)
    /\ UNCHANGED <<registrations, loader, storage, visits, calls, update_result, status, dropped, loaded, loads>>
    /\ UNCHANGED <<polled, startup>>

\* A live handle is dropped.
DropHandle(kind, id) ==
    /\ ChannelOpen
    /\ handles[kind][id] > 0
    /\ HandleDrop(kind, id)
    /\ dropped' = IF loader.load_state[id] = "Committed" THEN dropped \cup {id} ELSE dropped
    /\ UNCHANGED <<registrations, loader, storage, visits, calls, update_result, status, loaded, loads>>
    /\ UNCHANGED <<polled, startup>>

\* The identifiers with a load in flight.
Pending == {id \in Ids : loader.load_state[id] \in InFlight}

\* A fetch the backend can fail with an Io error is under way.
FetchPending == \E id \in Ids : loader.load_state[id] \in {"Requested", "BytesPending"}

\* What process_system does with the result of loader.process(&resolver, ..):
\* .unwrap() panics on Err.
ProcessOutcome(io_err) == IF io_err THEN "panicked" ELSE "running"

\* process_system: loader.process(..).unwrap(); ref_op_rx is not read.
ProcessSystem ==
    /\ status = "running"
    /\ \E io_err \in BOOLEAN, ready \in SUBSET Pending, decode_ok \in SUBSET Pending :
        /\ io_err => FetchPending /\ ready = {} /\ decode_ok = {}
        /\ decode_ok \subseteq ready
        /\ status' = ProcessOutcome(io_err)
        /\ IF io_err
           THEN UNCHANGED <<loader, storage, visits, calls, update_result>>
           ELSE LET s == LoaderProcess([loader |-> loader, w |-> World, res |-> update_result],
                                       1, ready, decode_ok)
                IN  /\ loader' = s.loader
                    /\ storage' = s.w.storage
                    /\ visits' = s.w.visits
                    /\ calls' = s.w.calls
                    /\ update_result' = s.res
    /\ pumped' = TRUE
    /\ UNCHANGED <<registrations, ref_op_rx, handles, dropped, loaded, loads>>
    /\ UNCHANGED <<polled, startup>>

\* unimplemented!(): the call panics at the call site; it has no return value.
Unimplemented == "panic"

\* get_handle_path is unimplemented!(): nothing of the coordinator is touched.
GetHandlePath(id) ==
    /\ status = "running"
    /\ last_unimplemented' = <<"get_handle_path", Unimplemented>>
    /\ UNCHANGED <<registrations, ref_op_rx, handles, loader, storage, visits, calls,
                   update_result, status, pumped, dropped, loaded, loads>>
    /\ UNCHANGED <<polled, config>>

\* load_folder that degrades silently: it returns Ok with an empty handle list.
LoadFolderEmpty(p) ==
    /\ status = "running"
    /\ last_unimplemented' = <<"load_folder", "returned">>
    /\ UNCHANGED <<registrations, ref_op_rx, handles, loader, storage, visits, calls,
                   update_result, status, pumped, dropped, loaded, loads>>
    /\ UNCHANGED <<polled, config>>

\* load_folder is unimplemented!(): nothing of the coordinator is touched.
LoadFolder(p) ==
    /\ status = "running"
    /\ last_unimplemented' = <<"load_folder", Unimplemented>>
    /\ UNCHANGED <<registrations, ref_op_rx, handles, loader, storage, visits, calls,
                   update_result, status, pumped, dropped, loaded, loads>>
    /\ UNCHANGED <<polled, config>>

Next ==
    \/ \E id \in Ids : GetHandle(id)
    \/ \E id \in Ids : GetHandleUntyped(id)
    \/ \E p \in Paths : LoadUntyped(p)
    \/ \E p \in Paths : Load(p)
    \/ \E k \in HandleKinds, id \in Ids : CloneHandle(k, id)
    \/ \E k \in HandleKinds, id \in Ids : DropHandle(k, id)
    \/ \E id \in Ids : GetHandlePath(id)
    \/ \E p \in Paths : LoadFolder(p)
    \/ ProcessSystem

Spec == Init /\ [][Next]_vars

\* ------------------------------------------------- startup
\* Before AssetServer::new is called: any settings, no coordinator yet.
BootInit ==
    /\ Fresh
    /\ config \in Configs
    /\ status = "unbuilt"

\* AssetServer::new(&settings): the operations above exist only on the Ok value.
New ==
    /\ status = "unbuilt"
    /\ status' = NewOutcome(config)
    /\ UNCHANGED <<registrations, ref_op_rx, handles, loader, storage, visits, calls,
                   update_result, pumped, dropped, loaded, loads>>
    /\ UNCHANGED <<polled, startup>>

BootNext == New \/ Next

BootSpec == BootInit /\ [][BootNext]_vars

\* ------------------------------------------------- the resolver on its own
\* The AssetStorage operations of AssetStorageResolver, applied to any type,
\* identifier and version a loader may pass.
Versions == 1..MaxVersion

RECURSIVE SumCalls(_, _)
SumCalls(t, id) ==
    IF id \notin Ids THEN 0
    ELSE calls[t][id]["update_asset"] + calls[t][id]["commit_asset_version"]
         + calls[t][id]["free"] + SumCalls(t, id + 1)

CanDispatch == SumCalls("Image", 1) + SumCalls("Blob", 1) < MaxCalls

\* The loader's call of resolver.update_asset(.., asset_type_id, .., load_handle, .., version).
UpdateAssetCall(t, id, version, decode_ok) ==
    /\ CanDispatch
    /\ LET r == ResolverUpdateAsset(World, t, id, version, decode_ok)
       IN  /\ storage' = r.w.storage
           /\ visits' = r.w.visits
           /\ calls' = r.w.calls
           /\ update_result' = [update_result EXCEPT ![id] = [type |-> t, result |-> r.result]]
    /\ UNCHANGED <<registrations, ref_op_rx, handles, loader, status, pumped, dropped, loaded, loads>>
    /\ UNCHANGED startup

\* The loader's call of resolver.commit_asset_version(asset_type_id, load_handle, version).
CommitAssetVersionCall(t, id, version) ==
    /\ CanDispatch
    /\ LET w == ResolverCommitAssetVersion(World, t, id, version)
       IN  /\ storage' = w.storage
           /\ visits' = w.visits
           /\ calls' = w.calls
    /\ UNCHANGED <<registrations, ref_op_rx, handles, loader, update_result, status, pumped, dropped, loaded, loads>>
    /\ UNCHANGED startup

\* The loader's call of resolver.free(asset_type_id, load_handle, version).
FreeCall(t, id, version) ==
    /\ CanDispatch
    /\ LET w == ResolverFree(World, t, id, version)
       IN  /\ storage' = w.storage
           /\ visits' = w.visits
           /\ calls' = w.calls
    /\ UNCHANGED <<registrations, ref_op_rx, handles, loader, update_result, status, pumped, dropped, loaded, loads>>
    /\ UNCHANGED startup

DispatchUpdateAsset(t, id, version, decode_ok) ==
    UpdateAssetCall(t, id, version, decode_ok) /\ UNCHANGED polled

DispatchCommitAssetVersion(t, id, version) ==
    CommitAssetVersionCall(t, id, version) /\ UNCHANGED polled

DispatchFree(t, id, version) ==
    FreeCall(t, id, version) /\ UNCHANGED polled

ResolverNext ==
    \/ \E t \in Types, id \in Ids, v \in Versions, ok \in BOOLEAN : DispatchUpdateAsset(t, id, v, ok)
    \/ \E t \in Types, id \in Ids, v \in Versions : DispatchCommitAssetVersion(t, id, v)
    \/ \E t \in Types, id \in Ids, v \in Versions : DispatchFree(t, id, v)

ResolverSpec == Init /\ [][ResolverNext]_vars

\* ------------------------------------------------- the Image storage observed
\* The loader's calls for the Image type, each recorded with the arguments it
\* was made with, and use_the_thing polling the Image storage between them.
ObservedUpdateAsset(id, version, decode_ok) ==
    /\ UpdateAssetCall("Image", id, version, decode_ok)
    /\ last_dispatch' = [op |-> "update_asset", id |-> id, version |-> version,
                         decode_ok |-> decode_ok]
    /\ UNCHANGED <<seen, committed>>

ObservedCommitAssetVersion(id, version) ==
    /\ CommitAssetVersionCall("Image", id, version)
    /\ last_dispatch' = [op |-> "commit_asset_version", id |-> id, version |-> version,
                         decode_ok |-> FALSE]
    /\ committed' = [committed EXCEPT ![id] = @ \cup {version}]
    /\ UNCHANGED seen

ObservedFree(id, version) ==
    /\ FreeCall("Image", id, version)
    /\ last_dispatch' = [op |-> "free", id |-> id, version |-> version, decode_ok |-> FALSE]
    /\ UNCHANGED <<seen, committed>>

\* use_the_thing: images.get(&handle), a poll of the Image storage between the
\* calls (process_system holds &mut Resources, so no poll runs inside one).
UseTheThing(id) ==
    /\ seen' = [id |-> id, value |-> AssetsGet("Image", id)]
    /\ UNCHANGED <<registrations, ref_op_rx, handles, loader, storage, visits, calls,
                   update_result, status, pumped, dropped, loaded, loads>>
    /\ UNCHANGED <<startup, committed, last_dispatch>>

ReaderNext ==
    \/ \E id \in Ids : UseTheThing(id)
    \/ \E id \in Ids, v \in Versions, ok \in BOOLEAN : ObservedUpdateAsset(id, v, ok)
    \/ \E id \in Ids, v \in Versions : ObservedCommitAssetVersion(id, v)
    \/ \E id \in Ids, v \in Versions : ObservedFree(id, v)

ReaderSpec == Init /\ [][ReaderNext]_vars

\* ================================================= claims
FreeCalls(id) == calls[TypeOf(loader, id)][id]["free"]

\* C1: at every quiescent point (process_system has run since the last handle
\* construction or drop) the reference count the loader records for each
\* identifier equals the number of live handles to it.
RefCountEqualsLiveHandles ==
    pumped => \A id \in Ids : loader.refs[id] = Live(id)

\* C2: a process cycle first drains and applies every RefOp queued on the channel
\* and then runs the loader's step, so after a cycle that no handle operation
\* followed the channel is empty.
ProcessDrainsRefOps ==
    pumped => ref_op_rx = <<>>

\* C4: once an identifier of a registered type is committed and its last live
\* handle has been dropped, a run of the pump leaves free invoked for it exactly
\* once.
FreedOnceAfterLastDrop ==
    \A id \in Allocated(loader) :
        ( /\ pumped
          /\ TypeOf(loader, id) \in registrations
          /\ loader.load_state[id] \in {"Committed", "Freed"}
          /\ id \in dropped
          /\ Live(id) = 0 )
        => FreeCalls(id) = 1

\* C5: for a type without a registration, update_asset's dispatch returns
\* Err(MissingAssetRegistration(type)), and no dispatch of update_asset,
\* commit_asset_version or free invokes a visitor or changes a storage of that type.
UnregisteredTypeUntouched ==
    \A t \in Types \ registrations :
        /\ visits[t] = 0
        /\ storage[t] = EmptyStore
        /\ \A id \in Ids :
              update_result[id].type = t
              => update_result[id].result = Err("MissingAssetRegistration", t)

\* C5 witness: all three operations were dispatched for an unregistered type.
UnregisteredTypeDispatched ==
    \E t \in Types \ registrations :
        /\ \E id \in Ids : update_result[id].type = t
        /\ \E id \in Ids : calls[t][id]["commit_asset_version"] > 0
        /\ \E id \in Ids : calls[t][id]["free"] > 0

\* C7: a recoverable per-request error never aborts the coordinator: process_system
\* does not terminate.
CoordinatorSurvivesErrors ==
    status = "running"

\* An update_asset was dispatched for (t, id) in this step.
UpdateDispatched(t, id) ==
    calls'[t][id]["update_asset"] = calls[t][id]["update_asset"] + 1

\* C6: when update_asset fails for an identifier (nothing is staged for the
\* version of its load), the identifier returns to Unloaded and nothing is
\* committed; an Unloaded identifier leaves Unloaded only by a new load request,
\* which gets the next version with nothing staged; and whatever is staged is of
\* the identifier's current version.
DecodeFailureStartsFresh ==
    /\ [][\A id \in Ids, t \in Types :
            (UpdateDispatched(t, id) /\ storage'[t][id].staged # loader.version[id])
            => /\ loader'.load_state[id] = "Unloaded"
               /\ storage'[t][id] = storage[t][id]
               /\ calls'[t][id]["commit_asset_version"] = calls[t][id]["commit_asset_version"]]_vars
    /\ [][\A id \in Ids :
            (loader.load_state[id] = "Unloaded" /\ loader'.load_state[id] # "Unloaded")
            => /\ loader'.load_state[id] = "Requested"
               /\ loader'.version[id] = loader.version[id] + 1
               /\ loader'.refs[id] = loader.refs[id] + 1
               /\ ref_op_rx' = Append(ref_op_rx, <<"Increase", id>>)
               /\ \A t \in Types : storage'[t][id].staged = 0]_vars
    /\ [](\A id \in Ids, t \in Types :
            storage[t][id].staged # 0 => storage[t][id].staged = loader.version[id])

\* C6 witness: after a failed first load, a second load of the identifier has
\* been requested and has staged its own version.
FreshLoadAfterFailure ==
    \E id \in Allocated(loader) :
        /\ loader.version[id] = 2
        /\ calls[TypeOf(loader, id)][id]["update_asset"] = 2
        /\ calls[TypeOf(loader, id)][id]["commit_asset_version"] = 0
        /\ storage[TypeOf(loader, id)][id].staged = 2

\* C8: all handles load returned for one indirect identifier refer to one
\* identifier, and while a load of an identifier is in flight no other is started:
\* its version stays, and a further load request leaves the load where it is.
LoadsCoalesced ==
    /\ [](\A p \in Paths : Cardinality(loaded[p]) <= 1)
    /\ [][\A id \in Ids :
            loader.load_state[id] \in InFlight
            => /\ loader'.version[id] = loader.version[id]
               /\ loader'.refs[id] # loader.refs[id]
                  => /\ loader'.load_state[id] = loader.load_state[id]
                     /\ loader'.updated = loader.updated]_vars

\* C8 witness: a second handle was loaded for a path whose load is in flight.
ReRequestedInFlight ==
    \E p \in Paths :
        /\ loader.indirect[p] # NoId
        /\ loader.load_state[loader.indirect[p]] \in InFlight
        /\ loader.refs[loader.indirect[p]] >= 2
        /\ Live(loader.indirect[p]) >= 2

\* C10: before the first commit_asset_version for an identifier, a poll of its
\* value reports absent, whatever the state of its load.
AbsentBeforeCommit ==
    \A t \in Types, id \in Ids :
        calls[t][id]["commit_asset_version"] = 0 => AssetsGet(t, id) = 0

\* C10 witness: a live handle from load whose identifier has a decoded value
\* staged and not committed, polled absent.
StagedNotVisible ==
    \E p \in Paths :
        LET id == loader.indirect[p]
        IN  /\ id # NoId
            /\ id \in loaded[p]
            /\ Live(id) > 0
            /\ loader.load_state[id] = "Decoding"
            /\ storage[TypeOfPath(p)][id].staged = loader.version[id]
            /\ AssetsGet(TypeOfPath(p), id) = 0

\* C12: a handle constructed otherwise than by load or load_untyped (by
\* get_handle, get_handle_untyped or a clone) leaves the loader as it was: no
\* load is requested and no load state changes.
GetHandleIssuesNoLoad ==
    [][\A k \in HandleKinds, id \in Ids :
          (handles'[k][id] = handles[k][id] + 1 /\ loads' = loads)
          => loader' = loader]_vars

\* C12 witness: a handle got for an identifier whose earlier load failed: it
\* is Unloaded, with more live handles than loads counted for it.
HandleGotForUnloaded ==
    \E id \in Allocated(loader) :
        /\ loader.load_state[id] = "Unloaded"
        /\ loader.version[id] = 1
        /\ Live(id) > loader.refs[id]

\* C13: a reader polling the Image storage between the loader's update_asset
\* and commit_asset_version calls observes nothing or a version that
\* commit_asset_version was called with: never a merely staged one.
ReaderSeesCommitted ==
    seen.value # 0 => seen.value \in committed[seen.id]

\* C13 witness: the reader has polled the previously committed version while
\* a newer one is staged and not committed.
OldSeenWhileStaged ==
    /\ seen.id # NoId
    /\ seen.value # 0
    /\ storage["Image"][seen.id].visible = seen.value
    /\ storage["Image"][seen.id].staged > seen.value

\* process_system is scheduled every frame, and the backend eventually answers
\* what is asked of it: a cycle is taken whenever one stays possible, and so is
\* a cycle in which some pending load advances.
Advance == ProcessSystem /\ loader'.load_state # loader.load_state

FairSpec == Spec /\ WF_vars(ProcessSystem) /\ WF_vars(Advance)

\* C14: under fair scheduling of process cycles, a load that is in flight
\* (Requested, BytesPending or Decoding) eventually leaves flight: it is
\* committed or has failed, whatever happens to its handles meanwhile.
LoadRunsToCompletion ==
    \A id \in Ids :
        (loader.load_state[id] \in InFlight) ~> (loader.load_state[id] \notin InFlight)

\* The coordinator's state: everything but the record of the unimplemented calls.
coordinator == <<registrations, ref_op_rx, handles, loader, storage, visits, calls,
                 update_result, status, pumped, dropped, loaded, loads, config, polled>>

\* C15: every call of load_folder or get_handle_path ends in a panic at the call
\* site, never in a returned value, and changes nothing of the coordinator.
UnimplementedFailLoudly ==
    [][last_unimplemented' # last_unimplemented
       => /\ last_unimplemented'[1] \in {"load_folder", "get_handle_path"}
          /\ last_unimplemented'[2] = "panic"
          /\ UNCHANGED coordinator]_vars

\* C15 witness: load_folder was called, and panicked, while a load it did not
\* request was in flight with a live handle.
LoadFolderPanickedMidLoad ==
    /\ last_unimplemented = <<"load_folder", "panic">>
    /\ \E id \in Ids : loader.load_state[id] \in InFlight /\ Live(id) > 0

\* C16: with the Directory setting and no assets-daemon feature, AssetServer::new
\* returns an error: no coordinator is ever running, and no loader state, handle
\* or RefOp comes to exist.
DirectoryWithoutDaemonFails ==
    (config.settings = "Directory" /\ ~config.daemon)
    => /\ status \in {"unbuilt", "new_failed"}
       /\ ref_op_rx = <<>>
       /\ \A id \in Ids : Live(id) = 0
       /\ Allocated(loader) = {}
       /\ loads = 0

\* C16 witness: new was called with Directory in a build without the daemon and
\* returned the error.
NewFailedForDirectory ==
    /\ config.settings = "Directory"
    /\ ~config.daemon
    /\ status = "new_failed"

\* The edges of an identifier's load state machine.
Edges ==
    {<<"Unloaded", "Requested">>, <<"Requested", "BytesPending">>,
     <<"BytesPending", "Decoding">>, <<"Decoding", "Committed">>,
     <<"Committed", "Freed">>, <<"Decoding", "Unloaded">>}

\* C17: an identifier's load state changes only along the edges Unloaded ->
\* Requested -> BytesPending -> Decoding -> Committed -> Freed and Decoding ->
\* Unloaded; Decoding -> Unloaded is taken in a step whose update_asset for the
\* identifier failed, Decoding -> Committed only with the load's version staged;
\* and once Freed an identifier stays Freed with no further storage operation
\* dispatched for it.
LoadStateFollowsEdges ==
    [][\A id \in Ids :
          LET a == loader.load_state[id]
              b == loader'.load_state[id]
          IN  /\ a # b => <<a, b>> \in Edges
              /\ (a = "Decoding" /\ b = "Unloaded")
                 => /\ UpdateDispatched(TypeOf(loader, id), id)
                    /\ update_result'[id].result # Ok
              /\ (a = "Decoding" /\ b = "Committed")
                 => storage[TypeOf(loader, id)][id].staged = loader.version[id]
              /\ a = "Freed"
                 => /\ b = "Freed"
                    /\ \A t \in Types : calls'[t][id] = calls[t][id]]_vars

\* C17 witness: an identifier whose first load went Decoding -> Unloaded and
\* whose second load went all the way to Committed.
CommittedOnSecondLoad ==
    \E id \in Allocated(loader) :
        /\ loader.load_state[id] = "Committed"
        /\ loader.version[id] = 2
        /\ update_result[id].result = Ok

\* A commit_asset_version was dispatched for (t, id) in this step.
CommitDispatched(t, id) ==
    calls'[t][id]["commit_asset_version"] = calls[t][id]["commit_asset_version"] + 1

\* C18: commit_asset_version is dispatched for an identifier only when the last
\* update_asset for it succeeded and staged the version being committed, and the
\* version it makes visible is greater than the one visible before.
CommitFollowsUpdate ==
    [][\A t \in Types, id \in Ids :
          CommitDispatched(t, id)
          => /\ update_result[id] = [type |-> t, result |-> Ok]
             /\ storage[t][id].staged = loader.version[id]
             /\ storage'[t][id].visible = loader.version[id]
             /\ storage'[t][id].visible > storage[t][id].visible]_vars

\* C18 witness: version 2 was committed for an identifier after the update_asset
\* of version 1 failed and that of version 2 succeeded.
SecondVersionCommitted ==
    \E t \in Types, id \in Ids :
        /\ storage[t][id].visible = 2
        /\ calls[t][id]["update_asset"] = 2
        /\ calls[t][id]["commit_asset_version"] = 1

\* A free was dispatched for (t, id) in this step.
FreeDispatched(t, id) ==
    calls'[t][id]["free"] = calls[t][id]["free"] + 1

\* C19: with Image registered, each update_asset, commit_asset_version or free
\* the loader calls on the resolver invokes Image's visitor once and leaves the
\* Image storage as that one operation, applied with the identifier and version
\* of the call, leaves it; what update_asset returns is what the storage
\* returned; and the coordinator keeps running.
RegisteredDispatchOnce ==
    [][\A id \in Ids :
          LET d == last_dispatch'
              st == storage["Image"]
              touched == UpdateDispatched("Image", id) \/ CommitDispatched("Image", id)
                         \/ FreeDispatched("Image", id)
          IN  ("Image" \in registrations /\ touched)
              => /\ d.id = id
                 /\ visits'["Image"] = visits["Image"] + 1
                 /\ status' = "running"
                 /\ UpdateDispatched("Image", id)
                    => LET r == StorageUpdateAsset(st, id, d.version, d.decode_ok)
                       IN  /\ d.op = "update_asset"
                           /\ storage'["Image"] = r.st
                           /\ update_result'[id] = [type |-> "Image", result |-> r.result]
                 /\ CommitDispatched("Image", id)
                    => /\ d.op = "commit_asset_version"
                       /\ storage'["Image"] = StorageCommitAssetVersion(st, id, d.version)
                       /\ update_result' = update_result
                 /\ FreeDispatched("Image", id)
                    => /\ d.op = "free"
                       /\ storage'["Image"] = StorageFree(st, id, d.version)
                       /\ update_result' = update_result]_vars

\* C19 witness: with Image registered, an update_asset whose bytes did not
\* decode was dispatched after other operations, and returned the storage's error.
StorageErrorPassedThrough ==
    /\ "Image" \in registrations
    /\ last_dispatch.op = "update_asset"
    /\ ~last_dispatch.decode_ok
    /\ update_result[last_dispatch.id] = [type |-> "Image", result |-> <<"Err", "AssetLoadError">>]
    /\ visits["Image"] >= 2

\* C20: no RefOp is lost: the Increases and Decreases sent on the channel are
\* eventually all received and applied by the pump, in the cycle under way or
\* in a later one.
EveryRefOpApplied ==
    (ref_op_rx # <<>>) ~> (ref_op_rx = <<>>)

====
